---------------------------- MODULE Spec2Model ----------------------------
(***************************************************************************)
(* Device registry and real-time fan-out of the telemetry hub              *)
(* (server/server.js): the Socket.IO connection handler with its           *)
(* 'register', 'sensor-data' and 'disconnect' listeners, the in-memory     *)
(* `devices` Map, the CSV persistence sink appendCsv and the messages the  *)
(* handlers emit.                                                          *)
(*                                                                         *)
(* JavaScript values are modelled as records [t |-> type, v |-> text]:     *)
(* t is the value's type ("undefined", "null", "string", "number") and v   *)
(* its text, so that truthiness (||, &&, !), typeof, Number() and          *)
(* template-literal interpolation are computed as JavaScript computes      *)
(* them.                                                                   *)
(***************************************************************************)
EXTENDS Integers, Sequences, FiniteSets, TLC

(***************************************************************************)
(* Bounds of the model.                                                    *)
(***************************************************************************)
\* Number of clock readings in a run: every handled message and every
\* disconnect happens at a later instant than the one before.
MaxClock == 3

\* The connections of a run, named in the order they connect; socket ids
\* are unique per connection, a reconnect is a new socket.
SocketOrder == <<"s1", "s2", "s3">>

Sockets == {SocketOrder[i] : i \in 1..Len(SocketOrder)}

(***************************************************************************)
(* JavaScript values.                                                      *)
(***************************************************************************)
Undef == [t |-> "undefined", v |-> ""]

Null == [t |-> "null", v |-> ""]

Str(s) == [t |-> "string", v |-> s]

Num(s) == [t |-> "number", v |-> s]

NaN == Num("NaN")

\* ToBoolean: undefined, null, '', 0 and NaN are falsy.
Truthy(a) ==
    CASE a.t = "undefined" -> FALSE
      [] a.t = "null"      -> FALSE
      [] a.t = "string"    -> a.v # ""
      [] a.t = "number"    -> a.v \notin {"0", "NaN"}
      [] OTHER             -> TRUE

\* a || b
Or(a, b) == IF Truthy(a) THEN a ELSE b

\* The decimal texts Number() reads as a number.
NumericTexts == {"0", "1", "2", "3", "10.5", "20.5"}

\* Number(a)
ToNumber(a) ==
    CASE a.t = "number"    -> a
      [] a.t = "undefined" -> NaN
      [] a.t = "null"      -> Num("0")
      [] a.t = "string"    -> IF a.v = "" THEN Num("0")
                              ELSE IF a.v \in NumericTexts THEN Num(a.v)
                              ELSE NaN
      [] OTHER             -> NaN

\* `${a}`
Template(a) ==
    CASE a.t = "undefined" -> "undefined"
      [] a.t = "null"      -> "null"
      [] OTHER             -> a.v

\* new Date().toISOString() at clock reading t.
ToISOString(t) == Str("T" \o ToString(t))


(***************************************************************************)
(* Inputs: the payloads clients send and the ids uuidv4 yields.            *)
(***************************************************************************)
\* payload.deviceId as clients supply it (absent, or a string).
DeviceIdInputs == {Undef, Str("A")}

\* `dev_${uuidv4().slice(0, 8)}`: the n-th id drawn; uuids are taken to be
\* distinct from each other and from the ids clients supply.
Synth(n) == Str("dev_0000000" \o ToString(n))

SynthIds == {Synth(n) : n \in 1..MaxClock}

\* payload.time, payload.x, payload.y, payload.z of a sample: a well-formed
\* reading and a malformed one.
WellFormed == [time |-> Str("t0"), x |-> Num("1"), y |-> Num("2"), z |-> Num("3")]

Malformed == [time |-> Undef, x |-> Str("abc"), y |-> Null, z |-> Undef]

\* A reading whose axes are strings: a decimal text, "0" and the empty string.
Textual == [time |-> Undef, x |-> Str("10.5"), y |-> Str("0"), z |-> Str("")]

ReadingInputs == {WellFormed, Malformed, Textual}

\* payload.lat, payload.lon of a sample.
PositionInputs ==
    { <<Undef, Undef>>, <<Num("10.5"), Num("20.5")>>, <<Num("0"), Num("20.5")>> }

\* An absent payload (undefined); reading a field of it is guarded by
\* `payload &&` or `!payload` in the handlers.
NoPayload ==
    [present |-> FALSE, deviceId |-> Undef, time |-> Undef, x |-> Undef,
     y |-> Undef, z |-> Undef, lat |-> Undef, lon |-> Undef]

\* register payloads: undefined, {} and { deviceId }.
RegisterPayloads ==
    {NoPayload} \cup
    { [NoPayload EXCEPT !.present = TRUE, !.deviceId = d] : d \in DeviceIdInputs }

\* sensor-data payloads: undefined and { deviceId?, time?, x, y, z, lat?, lon? }.
Samples(ids, readings, positions) ==
    {NoPayload} \cup
    { [present |-> TRUE, deviceId |-> d, time |-> r.time, x |-> r.x, y |-> r.y,
       z |-> r.z, lat |-> p[1], lon |-> p[2]] :
        d \in ids, r \in readings, p \in positions }

\* The samples of the registry runs: every id and position, one reading.
SamplePayloads == Samples(DeviceIdInputs, {WellFormed}, PositionInputs)

\* The samples of the runs with faults: the malformed reading under every
\* id and the textual one without id, at one position.
FaultSamplePayloads ==
    Samples(DeviceIdInputs, {Malformed}, {<<Num("10.5"), Num("20.5")>>})
    \cup Samples({Undef}, {Textual}, {<<Num("10.5"), Num("20.5")>>})

\* socket.handshake.query.role, defaulting to 'device'.  Of the connections
\* of a run the first is a device and the last an admin; the one between is
\* either.
Roles == <<{"device"}, {"device", "admin"}, {"admin"}>>

\* clientIpFromSocket(socket) of each connection.
IpOf(s) == Str("10.0.0." \o s)

\* Outcome of the file-system calls of one appendCsv: no fault, mkdirSync
\* throws, or the appendFileSync of the line throws.
FsFaults == {"none", "mkdir", "append"}

\* At most this many recipients of one handler's emits fail to get them.
MaxLost == 1

\* Number of clock readings in a run with faults.
MaxFaultClock == 2

\* Number of clock readings in a run that keeps the log of effects.
MaxOrderClock == 3

\* Number of runs of the batch uploader.
MaxTicks == 3

(***************************************************************************)
(* The registry: a JavaScript Map keyed by deviceId, in insertion order.   *)
(* A Map is the sequence of its values; every value carries its key in     *)
(* the field deviceId.                                                     *)
(***************************************************************************)
\* devices.has(k)
MapHas(m, k) == \E i \in 1..Len(m) : m[i].deviceId = k

\* devices.get(k), for a key the map has
MapGet(m, k) == m[CHOOSE i \in 1..Len(m) : m[i].deviceId = k]

\* A set that moves an existing key to the end.
MapSetMovesToEnd(m, k, e) == Append(SelectSeq(m, LAMBDA r : r.deviceId # k), e)

\* A set that appends also when the key exists.
MapSetAlwaysAppends(m, k, e) == Append(m, e)

\* devices.set(k, e): an existing key keeps its place, a new key is appended.
MapSet(m, k, e) ==
    IF MapHas(m, k)
    THEN [i \in 1..Len(m) |-> IF m[i].deviceId = k THEN e ELSE m[i]]
    ELSE Append(m, e)

\* Array.from(devices.values()): a new array of the objects the Map holds,
\* in the Map's order.  The array shares its elements with the Map: the
\* identity of the i-th element is the identity of the i-th object of the
\* Map (the variable objects) when the array is built.
Values(m) == m

\* The keys of the map, in order.
Keys(m) == [i \in 1..Len(m) |-> m[i].deviceId]

(***************************************************************************)
(* State.                                                                  *)
(***************************************************************************)
VARIABLES
    devices,    \* the registry Map
    sockets,    \* per connection: status, role, ip, data.deviceId
    files,      \* DATA_DIR/<deviceId>/<today>.csv: the number of lines of each file
    now,        \* the clock
    uuids,      \* the number of uuids drawn so far
    last,       \* the event handled last: op, socket, payload, resolved id,
                \* file-system fault, recipients lost
    sinkCalls,  \* the appendCsv calls of the last event
    emits,      \* the emit calls (and the HTTP response) of the last event, in order
    objects,    \* the identity of the object held under each key of the registry
    first,      \* per admin connection: the first message it was delivered
    log,        \* in the runs that keep it: the effects of the handlers so far,
                \* in the order they happened
    driveFileCache, \* the uploader's Map fileName -> Drive fileId (0: no entry)
    driveFiles,     \* the files created on Drive, in order: the name of each;
                    \* the fileId of a file is its index
    uploads,        \* the uploadToDrive calls waiting at their await
    ticks           \* the number of runs of the batch uploader so far

registryVars == <<devices, sockets, files, now, uuids, last, sinkCalls, emits,
                  objects, first, log>>

uploaderVars == <<driveFileCache, driveFiles, uploads, ticks>>

vars == <<devices, sockets, files, now, uuids, last, sinkCalls, emits, objects,
          first, log, driveFileCache, driveFiles, uploads, ticks>>

\* Folder names under DATA_DIR.
Folders == {d.v : d \in (DeviceIdInputs \ {Undef}) \cup SynthIds}

\* Sockets the server holds as connected (they are in the namespace io emits to).
Connected(socks) == {s \in Sockets : socks[s].status = "open"}

\* The sets of connected admin sockets (the receivers the fan-out is for)
\* whose transport may fail to deliver the emits of one handler: a send to
\* such a socket is lost, the emit call itself returns normally.
Losses(socks, maxLost) ==
    {L \in SUBSET {s \in Connected(socks) : socks[s].role = "admin"} :
        Cardinality(L) <= maxLost}

NoData ==
    [deviceId |-> Undef, time |-> Undef, x |-> Undef, y |-> Undef, z |-> Undef,
     lat |-> Undef, lon |-> Undef, ip |-> Undef]

\* One emit: the event name, the sockets it is addressed to, those that get
\* it, and its argument (list for 'devices', data for the others).
Emit(ev, to, lost, list, data) ==
    [ev |-> ev, to |-> to, got |-> to \ lost, list |-> list, data |-> data]

\* socket.emit(ev, ...)
SocketEmit(s, lost, ev, list, data) == Emit(ev, {s}, lost, list, data)

\* io.emit(ev, ...): to every connected socket, whatever its role.
IoEmit(socks, lost, ev, list, data) == Emit(ev, Connected(socks), lost, list, data)

Event(op, s, payload, deviceId, fault, lost) ==
    [op |-> op, sock |-> s, payload |-> payload, deviceId |-> deviceId,
     fault |-> fault, lost |-> lost]

\* No message yet.
NoMessage == [ev |-> "", op |-> ""]

\* What each admin connection was delivered first, after the emits `ems` of
\* an event of kind `op`: the first of them it got, unless it had got a
\* message before.
Delivered(fst, socks, ems, op) ==
    [s \in Sockets |->
        LET mine == {i \in 1..Len(ems) : s \in ems[i].got}
            i1 == CHOOSE i \in mine : \A j \in mine : i <= j
        IN  IF fst[s] = NoMessage /\ socks[s].role = "admin" /\ mine # {}
            THEN [ev |-> ems[i1].ev, op |-> op]
            ELSE fst[s]]

\* The folders of DATA_DIR the uploader runs are given, and today's date.
UploadFolders == {"A", Synth(1).v}

Today == "2025-01-01"

\* `${deviceId}_${file}`, file being `${date}.csv`
UploadName(folder) == folder \o "_" \o Today \o ".csv"

UploadNames == {UploadName(f) : f \in Folders}

\* const driveFileCache = new Map(); nothing uploaded, no run yet.
InitUploader ==
    /\ driveFileCache = [n \in UploadNames |-> 0]
    /\ driveFiles = <<>>
    /\ uploads = {}
    /\ ticks = 0

Init ==
    /\ InitUploader
    /\ devices = <<>>
    /\ sockets = [s \in Sockets |->
                    [status |-> "fresh", role |-> "device", ip |-> IpOf(s),
                     deviceId |-> Undef]]
    /\ files = [f \in Folders |-> 0]
    /\ now = 0
    /\ uuids = 0
    /\ last = Event("init", "", NoPayload, Undef, "none", {})
    /\ sinkCalls = <<>>
    /\ emits = <<>>
    /\ objects = <<>>
    /\ first = [s \in Sockets |-> NoMessage]
    /\ log = <<>>

(***************************************************************************)
(* io.on('connection'): the socket joins the namespace; an admin is sent   *)
(* the current device list.  Sockets are named in the order they connect.  *)
(***************************************************************************)
\* A connection handler that sends nothing to an admin.
ConnectEmitsNothing(s, role, devs) == <<>>

\* if (role === 'admin') socket.emit('devices', Array.from(devices.values()))
ConnectEmits(s, role, devs) ==
    IF role = "admin"
    THEN <<SocketEmit(s, {}, "devices", Values(devs), NoData)>>
    ELSE <<>>

Connect(i, role) ==
    LET s == SocketOrder[i]
        socks == [sockets EXCEPT ![s].status = "open", ![s].role = role]
    IN  /\ sockets[s].status = "fresh"
        /\ role \in Roles[i]
        /\ \A j \in 1..(i - 1) : sockets[SocketOrder[j]].status # "fresh"
        /\ sockets' = socks
        /\ emits' = ConnectEmits(s, role, devices)
        /\ last' = Event("connect", s, NoPayload, Undef, "none", {})
        /\ sinkCalls' = <<>>
        /\ first' = Delivered(first, socks, emits', "connect")
        /\ UNCHANGED <<devices, files, now, uuids, objects>>

(***************************************************************************)
(* app.get('/devices'): the HTTP listing of the registry.                  *)
(***************************************************************************)
\* res.json(list): the response, sent to no socket.
ListResponse(devs) == << Emit("response", {}, {}, Values(devs), NoData) >>

ListDevices ==
    /\ emits' = ListResponse(devices)
    /\ last' = Event("list", "", NoPayload, Undef, "none", {})
    /\ sinkCalls' = <<>>
    /\ UNCHANGED <<devices, sockets, files, now, uuids, objects, first>>

(***************************************************************************)
(* socket.on('register').  The clients that send register and sensor-data  *)
(* are the devices; the admin page only listens.                           *)
(***************************************************************************)
\* A resolver that ignores the id the client supplies.
RegisterIdAlwaysSynth(payload, uuid) == uuid

\* (payload && payload.deviceId) || `dev_${uuidv4().slice(0, 8)}`
RegisterId(payload, uuid) ==
    Or(IF payload.present THEN payload.deviceId ELSE Undef, uuid)

\* Whether the || above reaches the uuidv4() call.
RegisterDraws(payload) == ~Truthy(IF payload.present THEN payload.deviceId ELSE Undef)

\* const existing = devices.get(deviceId) || {}; const entry = { ... }
RegisterEntry(devs, deviceId, ip, s, t) ==
    LET existingLat == IF MapHas(devs, deviceId) THEN MapGet(devs, deviceId).lat
                       ELSE Undef
        existingLon == IF MapHas(devs, deviceId) THEN MapGet(devs, deviceId).lon
                       ELSE Undef
    IN  [deviceId |-> deviceId, ip |-> ip, socketId |-> Str(s),
         lastSeen |-> ToISOString(t), lat |-> Or(existingLat, Null),
         lon |-> Or(existingLon, Null)]

\* socket.emit('registered', { deviceId }); io.emit('devices', [...])
RegisterEmits(socks, lost, s, deviceId, devs) ==
    << SocketEmit(s, lost, "registered", <<>>, [NoData EXCEPT !.deviceId = deviceId]),
       IoEmit(socks, lost, "devices", Values(devs), NoData) >>

\* const entry = { ... }; devices.set(deviceId, entry): the key holds a new
\* object, named by the clock reading it was created at.
RegisterObjects(devs, objs, deviceId, t) ==
    IF MapHas(devs, deviceId)
    THEN [i \in 1..Len(devs) |-> IF devs[i].deviceId = deviceId THEN t ELSE objs[i]]
    ELSE Append(objs, t)

Register(s, payload, lost) ==
    LET deviceId == RegisterId(payload, Synth(uuids + 1))
        entry == RegisterEntry(devices, deviceId, sockets[s].ip, s, now)
        devs == MapSet(devices, deviceId, entry)
        socks == [sockets EXCEPT ![s].deviceId = deviceId]
    IN  /\ sockets[s].status = "open" /\ sockets[s].role = "device"
        /\ devices' = devs
        /\ sockets' = socks
        /\ emits' = RegisterEmits(socks, lost, s, deviceId, devs)
        /\ last' = Event("register", s, payload, deviceId, "none", lost)
        /\ sinkCalls' = <<>>
        /\ now' = now + 1
        /\ uuids' = IF RegisterDraws(payload) THEN uuids + 1 ELSE uuids
        /\ objects' = RegisterObjects(devices, objects, deviceId, now)
        /\ first' = Delivered(first, socks, emits', "register")
        /\ UNCHANGED files

(***************************************************************************)
(* appendCsv(deviceId, row)                                                *)
(***************************************************************************)
\* The body of the try block: the files it leaves, and whether it threw.
\* A file is its number of lines (the header line, then one line per row);
\* the file of the day exists iff it has lines.
AppendCsvTry(fs, deviceId, row, fault) ==
    LET folder == Template(deviceId)
        withHeader == IF fs[folder] = 0 THEN 1 ELSE fs[folder]
    IN  CASE fault = "mkdir"  -> [files |-> fs, threw |-> TRUE]
          [] fault = "append" -> [files |-> [fs EXCEPT ![folder] = withHeader],
                                  threw |-> TRUE]
          [] OTHER            -> [files |-> [fs EXCEPT ![folder] = withHeader + 1],
                                  threw |-> FALSE]

\* appendCsv without its try/catch: the throw reaches the caller.
AppendCsvUncaught(fs, deviceId, row, fault) == AppendCsvTry(fs, deviceId, row, fault)

\* try { ... } catch (err) { console.error(...) }: the caller never sees a throw.
AppendCsv(fs, deviceId, row, fault) ==
    [files |-> AppendCsvTry(fs, deviceId, row, fault).files, threw |-> FALSE]

(***************************************************************************)
(* socket.on('sensor-data')                                                *)
(***************************************************************************)
\* socket.data.deviceId || payload.deviceId || `dev_${uuidv4().slice(0,8)}`
SampleId(bound, payload, uuid) == Or(bound, Or(payload.deviceId, uuid))

\* Whether the || chain above reaches the uuidv4() call.
SampleDraws(bound, payload) == ~Truthy(bound) /\ ~Truthy(payload.deviceId)

\* An axis taken as it comes.
AxisKeeps(a) == a

\* typeof a === 'number' ? a : Number(a) || 0
Axis(a) == IF a.t = "number" THEN a ELSE Or(ToNumber(a), Num("0"))

\* const row = { time, x, y, z, lat, lon, ip }
SampleRow(payload, ip, t) ==
    [time |-> Or(payload.time, ToISOString(t)), x |-> Axis(payload.x),
     y |-> Axis(payload.y), z |-> Axis(payload.z),
     lat |-> Or(payload.lat, Str("")), lon |-> Or(payload.lon, Str("")),
     ip |-> ip]

\* A record left after the first of the handler's writes.
SampleRecordPartial(devs, deviceId, row, s, t) ==
    LET dev == IF MapHas(devs, deviceId) THEN MapGet(devs, deviceId)
               ELSE [deviceId |-> deviceId, ip |-> row.ip, socketId |-> Undef,
                     lastSeen |-> Undef, lat |-> Undef, lon |-> Undef]
    IN  [dev EXCEPT !.lastSeen = ToISOString(t)]

\* A record that takes the address of every sample.
SampleRecordTakesIp(devs, deviceId, row, s, t) ==
    [deviceId |-> deviceId, ip |-> row.ip, socketId |-> Str(s),
     lastSeen |-> ToISOString(t), lat |-> row.lat, lon |-> row.lon]

\* const dev = devices.get(deviceId) || { deviceId, ip }; dev.lastSeen = ...
SampleRecord(devs, deviceId, row, s, t) ==
    LET dev == IF MapHas(devs, deviceId) THEN MapGet(devs, deviceId)
               ELSE [deviceId |-> deviceId, ip |-> row.ip, socketId |-> Undef,
                     lastSeen |-> Undef, lat |-> Undef, lon |-> Undef]
    IN  [dev EXCEPT !.lastSeen = ToISOString(t), !.lat = row.lat,
                    !.lon = row.lon, !.socketId = Str(s)]

\* Object.assign({ deviceId }, row)
SampleData(deviceId, row) ==
    [deviceId |-> deviceId, time |-> row.time, x |-> row.x, y |-> row.y,
     z |-> row.z, lat |-> row.lat, lon |-> row.lon, ip |-> row.ip]

\* A handler whose broadcast is not done when it returns.
SampleEmitsLater(socks, lost, deviceId, row) == <<>>

\* io.emit('sensor-data', Object.assign({ deviceId }, row))
SampleEmits(socks, lost, deviceId, row) ==
    << IoEmit(socks, lost, "sensor-data", <<>>, SampleData(deviceId, row)) >>

\* A handler that hands the row to the sink twice.
SampleSinkCallsTwice(deviceId, row) ==
    << [deviceId |-> deviceId, row |-> row], [deviceId |-> deviceId, row |-> row] >>

\* appendCsv(deviceId, row): the hand-off to the persistence sink
SampleSinkCalls(deviceId, row) == << [deviceId |-> deviceId, row |-> row] >>

\* devices.get(deviceId) || { deviceId, ip }: the object the key holds is
\* kept and written in place; a new key gets a new object.
SampleObjects(devs, objs, deviceId, t) ==
    IF MapHas(devs, deviceId) THEN objs ELSE Append(objs, t)

\* A handler that takes an absent payload for a sample.
SampleAlwaysAccepted(payload) == TRUE

\* if (!payload) return;
SampleAccepted(payload) == payload.present

Sensor(s, payload, fault, lost) ==
    LET deviceId == SampleId(sockets[s].deviceId, payload, Synth(uuids + 1))
        row == SampleRow(payload, sockets[s].ip, now)
        csv == AppendCsv(files, deviceId, row, fault)
    IN  /\ sockets[s].status = "open" /\ sockets[s].role = "device"
        /\ now' = now + 1
        /\ UNCHANGED sockets
        /\ IF ~SampleAccepted(payload)
           THEN /\ fault = "none" /\ lost = {}
                /\ last' = Event("sensor-data", s, payload, Undef, "none", {})
                /\ sinkCalls' = <<>>
                /\ emits' = <<>>
                /\ UNCHANGED <<devices, files, uuids, objects>>
           ELSE /\ last' = Event("sensor-data", s, payload, deviceId, fault, lost)
                /\ uuids' = IF SampleDraws(sockets[s].deviceId, payload)
                            THEN uuids + 1 ELSE uuids
                /\ sinkCalls' = SampleSinkCalls(deviceId, row)
                /\ files' = csv.files
                /\ IF csv.threw
                   THEN \* an exception leaves the handler at the call
                        /\ emits' = <<>>
                        /\ UNCHANGED <<devices, objects>>
                   ELSE /\ devices' = MapSet(devices, deviceId,
                                         SampleRecord(devices, deviceId, row, s, now))
                        /\ objects' = SampleObjects(devices, objects, deviceId, now)
                        /\ emits' = SampleEmits(sockets, lost, deviceId, row)
        /\ first' = Delivered(first, sockets, emits', "sensor-data")

(***************************************************************************)
(* socket.on('disconnect'): the socket has left the namespace when the     *)
(* listener runs.                                                          *)
(***************************************************************************)
\* if (deviceId && devices.has(deviceId))
DisconnectMarks(devs, deviceId) == Truthy(deviceId) /\ MapHas(devs, deviceId)

\* A disconnect handler that leaves the record's socketId as it is.
OfflineRecordKeepsHandle(dev, t) == [dev EXCEPT !.lastSeen = ToISOString(t)]

\* dev.socketId = null; dev.lastSeen = new Date().toISOString()
OfflineRecord(dev, t) == [dev EXCEPT !.socketId = Null, !.lastSeen = ToISOString(t)]

\* A disconnect handler that marks the record and tells nobody.
DisconnectEmitsNothing(socks, lost, devs) == <<>>

\* io.emit('devices', Array.from(devices.values()))
DisconnectEmits(socks, lost, devs) ==
    << IoEmit(socks, lost, "devices", Values(devs), NoData) >>

Disconnect(s, lost) ==
    LET deviceId == sockets[s].deviceId
        socks == [sockets EXCEPT ![s].status = "closed"]
        devs == MapSet(devices, deviceId, OfflineRecord(MapGet(devices, deviceId), now))
    IN  /\ sockets[s].status = "open"
        /\ lost \subseteq Connected(socks)
        /\ now' = now + 1
        /\ sockets' = socks
        /\ last' = Event("disconnect", s, NoPayload, deviceId, "none", lost)
        /\ sinkCalls' = <<>>
        /\ UNCHANGED <<files, uuids, objects>>
        /\ IF DisconnectMarks(devices, deviceId)
           THEN /\ devices' = devs
                /\ emits' = DisconnectEmits(socks, lost, devs)
           ELSE /\ lost = {}
                /\ emits' = <<>>
                /\ UNCHANGED devices
        /\ first' = Delivered(first, socks, emits', "disconnect")

(***************************************************************************)
(* The events of a run of at most `limit` clock readings, over the given   *)
(* inputs.                                                                 *)
(***************************************************************************)
\* The effects of one handler run at clock reading t on behalf of event e,
\* in the order of the handler's statements: the appendCsv calls, the write
\* to the registry, the emits.  Every listener is a synchronous function:
\* its effects are done when it returns, before the next message of any
\* connection is dispatched.
Effects(e, t, sink, ems, changed) ==
    LET entry(kind, ev, got) ==
            [sock |-> e.sock, op |-> e.op, at |-> t, kind |-> kind, ev |-> ev,
             got |-> got]
    IN  [i \in 1..Len(sink) |-> entry("sink", "", {})]
        \o (IF changed THEN <<entry("registry", "", {})>> ELSE <<>>)
        \o [i \in 1..Len(ems) |-> entry("emit", ems[i].ev, ems[i].got)]

\* The log after a step, in the runs that keep one.
Logged(logging) ==
    log' = IF logging
           THEN log \o Effects(last', now, sinkCalls', emits', devices' # devices)
           ELSE log

Step(limit, regs, samples, faults, maxLost, logging) ==
    \/ \E i \in 1..Len(SocketOrder), role \in {"device", "admin"} :
          Connect(i, role) /\ Logged(logging) /\ UNCHANGED uploaderVars
    \/ \E s \in Sockets, payload \in regs, lost \in Losses(sockets, maxLost) :
          /\ now < limit /\ Register(s, payload, lost) /\ Logged(logging)
          /\ UNCHANGED uploaderVars
    \/ \E s \in Sockets, payload \in samples, fault \in faults,
          lost \in Losses(sockets, maxLost) :
          /\ now < limit /\ Sensor(s, payload, fault, lost) /\ Logged(logging)
          /\ UNCHANGED uploaderVars
    \/ \E s \in Sockets, lost \in Losses(sockets, maxLost) :
          /\ now < limit /\ Disconnect(s, lost) /\ Logged(logging)
          /\ UNCHANGED uploaderVars
    \/ ListDevices /\ UNCHANGED log /\ UNCHANGED uploaderVars

\* Registry runs: every register and sample payload; the file system and
\* the transports work.
Next == Step(MaxClock, RegisterPayloads, SamplePayloads, {"none"}, 0, FALSE)

Spec == Init /\ [][Next]_vars

\* Runs with faults: appendCsv may throw inside its try block and sends may
\* be lost.
NextFaults ==
    Step(MaxFaultClock, RegisterPayloads, FaultSamplePayloads, FsFaults, MaxLost, FALSE)

SpecFaults == Init /\ [][NextFaults]_vars

\* Runs that keep the log of effects: one register payload, one sample
\* payload and the absent one; the file system and the transports work.
OrderRegisterPayloads == {[NoPayload EXCEPT !.present = TRUE, !.deviceId = Str("A")]}

OrderSamplePayloads == Samples({Undef}, {WellFormed}, {<<Num("10.5"), Num("20.5")>>})

NextOrder ==
    Step(MaxOrderClock, OrderRegisterPayloads, OrderSamplePayloads, {"none"}, 0, TRUE)

SpecOrder == Init /\ [][NextOrder]_vars

(***************************************************************************)
(* The batch uploader: setInterval(..., 60 * 1000) and uploadToDrive.      *)
(* A run of the uploader starts one uploadToDrive call per recent data     *)
(* file; each call runs to its await (the cache lookup and the request to  *)
(* Drive) and resumes when Drive answers, at any later time.               *)
(***************************************************************************)
\* The data directories a process may start with: the files of earlier
\* appendCsv calls (a header and a line) in some of the upload folders.
DataDirs ==
    {d \in [Folders -> {0, 2}] : \A f \in Folders : d[f] > 0 => f \in UploadFolders}

\* The state of a process started on such a data directory.
InitUpload ==
    /\ InitUploader
    /\ files \in DataDirs
    /\ devices = <<>>
    /\ sockets = [s \in Sockets |->
                    [status |-> "fresh", role |-> "device", ip |-> IpOf(s),
                     deviceId |-> Undef]]
    /\ now = 0
    /\ uuids = 0
    /\ last = Event("init", "", NoPayload, Undef, "none", {})
    /\ sinkCalls = <<>>
    /\ emits = <<>>
    /\ objects = <<>>
    /\ first = [s \in Sockets |-> NoMessage]
    /\ log = <<>>

\* uploadToDrive(filePath, fileName) up to its await: an update of the
\* cached fileId when the cache has the name, a create otherwise.
StartUpload(cache, fileName, tick) ==
    IF cache[fileName] # 0
    THEN [name |-> fileName, kind |-> "update", fileId |-> cache[fileName],
          tick |-> tick]
    ELSE [name |-> fileName, kind |-> "create", fileId |-> 0, tick |-> tick]

\* One run of the interval callback: an upload is started for every file
\* modified in the last 5 minutes (recent, a set of folders with a file).
Tick(recent) ==
    /\ ticks < MaxTicks
    /\ \A f \in recent : files[f] > 0
    /\ ticks' = ticks + 1
    /\ uploads' = uploads \cup
                     {StartUpload(driveFileCache, UploadName(f), ticks + 1) : f \in recent}
    /\ UNCHANGED <<driveFileCache, driveFiles>>
    /\ UNCHANGED registryVars

\* await drive.files.create(...) resolves: Drive has a new file;
\* driveFileCache.set(fileName, res.data.id)
CreateReturns(u) ==
    /\ u \in uploads /\ u.kind = "create"
    /\ driveFiles' = Append(driveFiles, u.name)
    /\ driveFileCache' = [driveFileCache EXCEPT ![u.name] = Len(driveFiles) + 1]
    /\ uploads' = uploads \ {u}
    /\ UNCHANGED ticks
    /\ UNCHANGED registryVars

\* await drive.files.create(...) rejects: catch (err) { console.error(...) }
CreateFails(u) ==
    /\ u \in uploads /\ u.kind = "create"
    /\ uploads' = uploads \ {u}
    /\ UNCHANGED <<driveFileCache, driveFiles, ticks>>
    /\ UNCHANGED registryVars

\* await drive.files.update(...) resolves or rejects: the file keeps its id.
UpdateSettles(u) ==
    /\ u \in uploads /\ u.kind = "update"
    /\ uploads' = uploads \ {u}
    /\ UNCHANGED <<driveFileCache, driveFiles, ticks>>
    /\ UNCHANGED registryVars

NextUpload ==
    \/ \E recent \in SUBSET UploadFolders : Tick(recent)
    \/ \E u \in uploads : CreateReturns(u)
    \/ \E u \in uploads : CreateFails(u)
    \/ \E u \in uploads : UpdateSettles(u)

SpecUpload == InitUpload /\ [][NextUpload]_vars

(***************************************************************************)
(* Properties.                                                             *)
(***************************************************************************)
\* The step handled a message or a disconnect of the given kind.
Handled(op) == now' = now + 1 /\ last'.op = op

\* The number of records of map m under key k.
CountKey(m, k) == Cardinality({i \in 1..Len(m) : m[i].deviceId = k})

\* The connected sockets that asked for the observer (admin) role.
Observers(socks) == {s \in Connected(socks) : socks[s].role = "admin"}

\* C1: the disconnect of a superseded connection is a no-op for the
\* registry: when c1 and c2 registered the same deviceId and the record's
\* socketId is c2's, the disconnect of c1 leaves it c2's.
C1_StaleDisconnectKeepsHandle ==
    [][\A c1, c2 \in Sockets :
          ( /\ c1 # c2
            /\ Handled("disconnect") /\ last'.sock = c1
            /\ Truthy(sockets[c1].deviceId)
            /\ sockets[c2].deviceId = sockets[c1].deviceId
            /\ MapHas(devices, sockets[c1].deviceId)
            /\ MapGet(devices, sockets[c1].deviceId).socketId = Str(c2) )
          => MapGet(devices', sockets[c1].deviceId).socketId = Str(c2)]_vars

\* C2: after a register the registry holds exactly one record under the
\* registered deviceId and its socketId is the registering connection's;
\* no state of the registry holds two records under one deviceId.
C2_RegisterSupersedes ==
    /\ \A i, j \in 1..Len(devices) :
          devices[i].deviceId = devices[j].deviceId => i = j
    /\ last.op = "register" =>
          /\ CountKey(devices, last.deviceId) = 1
          /\ MapGet(devices, last.deviceId).socketId = Str(last.sock)

\* A second connection has registered a deviceId an earlier connection is
\* still bound to.
C2_Witness ==
    /\ last.op = "register"
    /\ \E c \in Sockets : c # last.sock /\ sockets[c].deviceId = last.deviceId

\* C3: a sensor-data event that carries no lat/lon leaves the position
\* (lat, lon) of an existing record unchanged.
C3_SampleWithoutPositionKeepsIt ==
    [][( /\ Handled("sensor-data")
         /\ last'.payload.present
         /\ last'.payload.lat = Undef /\ last'.payload.lon = Undef
         /\ MapHas(devices, last'.deviceId) )
       => /\ MapGet(devices', last'.deviceId).lat = MapGet(devices, last'.deviceId).lat
          /\ MapGet(devices', last'.deviceId).lon = MapGet(devices, last'.deviceId).lon]_vars

\* The step handled a register or an accepted sample.
Resolved(e) == e.op \in {"register", "sensor-data"} /\ Truthy(e.deviceId)

\* C4: the deviceId resolved for a connection never changes: two messages
\* handled one after the other on the same connection are attributed to the
\* same deviceId.
C4_IdBoundForLife ==
    [][( /\ now' = now + 1
         /\ Resolved(last) /\ Resolved(last')
         /\ last'.sock = last.sock )
       => last'.deviceId = last.deviceId]_vars

\* C5: once a connection is closed no record has its handle as socketId.
C5_ClosedHandleNotReferenced ==
    \A s \in Sockets :
        sockets[s].status = "closed" =>
            \A i \in 1..Len(devices) : devices[i].socketId # Str(s)

\* C6: a register and a disconnect leave the position of every record that
\* holds a coordinate stored by a sample as it is.
C6_PositionSurvives ==
    [][(Handled("register") \/ Handled("disconnect"))
       => \A i \in 1..Len(devices) :
             (Truthy(devices[i].lat) \/ Truthy(devices[i].lon))
             => /\ devices'[i].lat = devices[i].lat
                /\ devices'[i].lon = devices[i].lon]_vars

\* A position is absent when it is null or undefined.
Absent(a) == a \in {Null, Undef}

\* C7: a sample with a payload on a connection with no register leaves a
\* record under the resolved deviceId whose position is set iff the payload
\* carried lat and lon, and absent when it did not.
C7_ImplicitRegistrationPosition ==
    ( /\ last.op = "sensor-data" /\ last.payload.present
      /\ sockets[last.sock].deviceId = Undef )
    => /\ MapHas(devices, last.deviceId)
       /\ (~Absent(MapGet(devices, last.deviceId).lat)
             <=> last.payload.lat # Undef)
       /\ (~Absent(MapGet(devices, last.deviceId).lon)
             <=> last.payload.lon # Undef)

\* The emits of the last event are one io.emit of 'devices' carrying the
\* registry as it is now, addressed to every connected socket.
OneDevicesBroadcast ==
    /\ Cardinality({i \in 1..Len(emits) : emits[i].ev = "devices"}) = 1
    /\ emits[Len(emits)].ev = "devices"
    /\ emits[Len(emits)].list = Values(devices)
    /\ emits[Len(emits)].to = Connected(sockets)
    /\ Observers(sockets) \subseteq emits[Len(emits)].to

RecordFields == {"deviceId", "ip", "socketId", "lastSeen", "lat", "lon"}

\* The sensor-data emits of the last event.
SampleEmitsOfLast == {i \in 1..Len(emits) : emits[i].ev = "sensor-data"}

\* C9: an accepted sample is handed once to the persistence sink and once
\* to the broadcaster, both under the deviceId the registry was updated
\* under, and the registry record holds no field of the sample but lat/lon.
C9_SampleHandedOnce ==
    (last.op = "sensor-data" /\ last.payload.present)
    => /\ Len(sinkCalls) = 1
       /\ sinkCalls[1].deviceId = last.deviceId
       /\ Cardinality(SampleEmitsOfLast) = 1
       /\ \A i \in SampleEmitsOfLast :
             /\ emits[i].data.deviceId = last.deviceId
             /\ emits[i].data = SampleData(last.deviceId, sinkCalls[1].row)
       /\ MapHas(devices, last.deviceId)
       /\ MapGet(devices, last.deviceId).socketId = Str(last.sock)
       /\ \A i \in 1..Len(devices) : DOMAIN devices[i] = RecordFields

\* An accepted sample was resolved to another deviceId than its payload names.
C9_Witness ==
    /\ last.op = "sensor-data" /\ last.payload.present
    /\ Truthy(last.payload.deviceId)
    /\ last.deviceId # last.payload.deviceId

\* C10: when the persistence write of an accepted sample fails, the
\* registry is updated and the sample is emitted all the same; when sends
\* to some recipients are lost, the row is still handed to the sink, the
\* write (if the file system works) still done, and every other connected
\* socket still gets the sample.
C10_SinkAndBroadcastIndependent ==
    (last.op = "sensor-data" /\ last.payload.present)
    => /\ MapHas(devices, last.deviceId)
       /\ MapGet(devices, last.deviceId).socketId = Str(last.sock)
       /\ MapGet(devices, last.deviceId).lastSeen = ToISOString(now - 1)
       /\ Len(sinkCalls) = 1
       /\ last.fault = "none" => files[Template(last.deviceId)] >= 2
       /\ Cardinality(SampleEmitsOfLast) = 1
       /\ \A i \in SampleEmitsOfLast :
             /\ emits[i].to = Connected(sockets)
             /\ emits[i].got = Connected(sockets) \ last.lost
             /\ emits[i].data.lat = MapGet(devices, last.deviceId).lat

\* The write of a sample failed and the send to one observer was lost while
\* another observer got the sample.
C10_Witness ==
    /\ last.op = "sensor-data" /\ last.payload.present
    /\ last.fault # "none"
    /\ \E o1, o2 \in Observers(sockets) :
          /\ o1 \in last.lost
          /\ \E i \in SampleEmitsOfLast : o2 \in emits[i].got

\* C11: the first message an admin (observer) connection is delivered is the
\* devices snapshot its connection handler sends, carrying the registry as
\* it is when the connection opens; no message of a later event comes
\* before it.
C11_ObserverFirstGetsSnapshot ==
    /\ \A s \in Sockets :
          (sockets[s].role = "admin" /\ sockets[s].status # "fresh")
          => first[s] = [ev |-> "devices", op |-> "connect"]
    /\ (last.op = "connect" /\ sockets[last.sock].role = "admin")
       => /\ Len(emits) = 1
          /\ emits[1].ev = "devices"
          /\ emits[1].to = {last.sock} /\ emits[1].got = {last.sock}
          /\ emits[1].list = Values(devices)

\* An admin that connected earlier is delivered the sample of a later
\* sensor-data event.
C11_Witness ==
    /\ last.op = "sensor-data" /\ Len(devices) > 0
    /\ \E s \in Observers(sockets) :
          /\ first[s].op = "connect"
          /\ \E i \in 1..Len(emits) : s \in emits[i].got

\* C12: no step removes a key from the registry; a disconnect that marks a
\* record offline leaves it in the registry with socketId null, and an
\* offline record stays in the registry with socketId null until a register
\* or a sample of its deviceId.
C12_RecordsNeverDeleted ==
    [][ /\ Len(devices') >= Len(devices)
        /\ \A i \in 1..Len(devices) : MapHas(devices', devices[i].deviceId)
        /\ (Handled("disconnect") /\ DisconnectMarks(devices, last'.deviceId))
           => /\ MapHas(devices', last'.deviceId)
              /\ MapGet(devices', last'.deviceId).socketId = Null
        /\ \A i \in 1..Len(devices) :
              ( /\ devices[i].socketId = Null
                /\ ~( /\ now' = now + 1 /\ Resolved(last')
                      /\ last'.deviceId = devices[i].deviceId ) )
              => MapGet(devices', devices[i].deviceId).socketId = Null ]_vars

\* A device has registered while the record of another device was offline.
C12_Witness ==
    /\ last.op = "register"
    /\ \E i \in 1..Len(devices) :
          /\ devices[i].socketId = Null
          /\ devices[i].deviceId # last.deviceId

\* C13: a sensor-data event with an absent payload changes nothing: the
\* registry, the data files, the connections' bound ids and the uuids drawn
\* stay as they are, appendCsv is not called and nothing is emitted.
C13_AbsentPayloadNoEffect ==
    [][ (Handled("sensor-data") /\ ~last'.payload.present)
        => /\ devices' = devices /\ objects' = objects
           /\ files' = files
           /\ sockets' = sockets
           /\ uuids' = uuids
           /\ sinkCalls' = <<>>
           /\ emits' = <<>>
           /\ first' = first ]_vars

\* An absent payload arrived while the registry had a record and an admin
\* was connected.
C13_Witness ==
    /\ last.op = "sensor-data" /\ ~last.payload.present
    /\ Len(devices) > 0
    /\ Observers(sockets) # {}

\* C14: a register is resolved to the deviceId of its payload when the
\* payload has one and to the id synthesized from the uuid just drawn
\* otherwise; the record is stored under that id, the connection is bound
\* to it, and the handler emits 'registered' with that id to the sender
\* first and the 'devices' broadcast second.
C14_RegisterIdAndReplyOrder ==
    last.op = "register"
    => /\ last.deviceId =
             IF last.payload.present /\ Truthy(last.payload.deviceId)
             THEN last.payload.deviceId
             ELSE Synth(uuids)
       /\ MapHas(devices, last.deviceId)
       /\ MapGet(devices, last.deviceId).socketId = Str(last.sock)
       /\ sockets[last.sock].deviceId = last.deviceId
       /\ Len(emits) = 2
       /\ emits[1].ev = "registered"
       /\ emits[1].to = {last.sock}
       /\ emits[1].data.deviceId = last.deviceId
       /\ emits[2].ev = "devices"
       /\ \E i \in 1..Len(emits[2].list) : emits[2].list[i].deviceId = last.deviceId

\* A register without an id was given a synthesized one while the registry
\* held a record under a client-supplied id.
C14_Witness ==
    /\ last.op = "register"
    /\ last.deviceId \in SynthIds
    /\ MapHas(devices, Str("A"))

\* What an axis value is to become: a number stays, a string that reads as
\* a number becomes that number, anything else becomes 0.
NormalizedAxis(a) ==
    IF a.t = "number" THEN a
    ELSE IF a.t = "string" /\ a.v \in NumericTexts THEN Num(a.v)
    ELSE Num("0")

\* C15: the x, y, z of the row of an accepted sample are numbers: the
\* payload's number, the number its string reads as, or 0 when the value is
\* missing or not numeric; the row is handed to appendCsv (and written when
\* the file system works) and emitted as 'sensor-data' with those axes.
C15_AxesNormalized ==
    (last.op = "sensor-data" /\ last.payload.present)
    => /\ Len(sinkCalls) = 1
       /\ sinkCalls[1].row.x = NormalizedAxis(last.payload.x)
       /\ sinkCalls[1].row.y = NormalizedAxis(last.payload.y)
       /\ sinkCalls[1].row.z = NormalizedAxis(last.payload.z)
       /\ \A f \in {"x", "y", "z"} :
             sinkCalls[1].row[f].t = "number" /\ sinkCalls[1].row[f] # NaN
       /\ (last.payload.x = Str("abc") /\ last.payload.y = Null /\ last.payload.z = Undef)
          => /\ sinkCalls[1].row.x = Num("0")
             /\ sinkCalls[1].row.y = Num("0")
             /\ sinkCalls[1].row.z = Num("0")
       /\ last.fault = "none" => files[Template(last.deviceId)] >= 2
       /\ Cardinality(SampleEmitsOfLast) = 1
       /\ \A i \in SampleEmitsOfLast :
             /\ emits[i].data.x = sinkCalls[1].row.x
             /\ emits[i].data.y = sinkCalls[1].row.y
             /\ emits[i].data.z = sinkCalls[1].row.z

\* The sample {x: "abc", y: null, z: undefined} was written and an admin
\* got it.
C15_Witness ==
    /\ last.op = "sensor-data" /\ last.payload.present
    /\ last.payload.x = Str("abc") /\ last.payload.y = Null /\ last.payload.z = Undef
    /\ last.fault = "none"
    /\ \E i \in SampleEmitsOfLast : emits[i].got \cap Observers(sockets) # {}

\* C16: the registry, and with it every snapshot, lists the records in the
\* order in which their deviceIds were first registered (by a register or
\* by a sample): a step keeps every key at its index; a register or sample
\* of a new id adds one record at the end, one of an existing id adds none;
\* a register stores the id, address and handle it was given; and each
\* 'devices' emit and /devices response of a step is the registry in
\* that order.
C16_SnapshotInFirstRegistrationOrder ==
    [][ /\ \A i \in 1..Len(devices) :
              i <= Len(devices') /\ devices'[i].deviceId = devices[i].deviceId
        /\ Len(devices') = Cardinality({Keys(devices')[i] : i \in 1..Len(devices')})
        /\ (now' = now + 1 /\ Resolved(last') /\ last'.payload.present
                /\ last'.op = "sensor-data")
           => Keys(devices') = IF MapHas(devices, last'.deviceId) THEN Keys(devices)
                               ELSE Append(Keys(devices), last'.deviceId)
        /\ Handled("register")
           => /\ Keys(devices') = IF MapHas(devices, last'.deviceId) THEN Keys(devices)
                                  ELSE Append(Keys(devices), last'.deviceId)
              /\ MapGet(devices', last'.deviceId).deviceId = last'.deviceId
              /\ MapGet(devices', last'.deviceId).ip = sockets[last'.sock].ip
              /\ MapGet(devices', last'.deviceId).socketId = Str(last'.sock)
        /\ Handled("disconnect") => Keys(devices') = Keys(devices)
        /\ \A i \in 1..Len(emits') :
              emits'[i].ev \in {"devices", "response"}
              => emits'[i].list = Values(devices') ]_vars

\* The id registered first has registered again after a second id was
\* registered, and the broadcast lists it first.
C16_Witness ==
    /\ last.op = "register"
    /\ Len(devices) = 2
    /\ devices[1].deviceId = last.deviceId
    /\ devices[1].lastSeen = ToISOString(now - 1)
    /\ Len(emits) = 2 /\ Keys(emits[2].list) = Keys(devices)

\* C17: every step that changes a record of the registry emits a 'devices'
\* broadcast of the changed registry to all connected admins.
C17_EveryChangeBroadcasts ==
    [][ devices' # devices
        => \E i \in 1..Len(emits') :
              /\ emits'[i].ev = "devices"
              /\ emits'[i].list = Values(devices')
              /\ Observers(sockets') \subseteq emits'[i].to ]_vars

\* C18: an accepted sample from connection c resolved to deviceId d leaves
\* record d with socketId c, whoever registered d last; the record's ip is
\* c's address when the sample creates the record and the ip it had
\* otherwise.
C18_SampleTakesHandleKeepsAddress ==
    [][ (Handled("sensor-data") /\ last'.payload.present)
        => /\ MapHas(devices', last'.deviceId)
           /\ MapGet(devices', last'.deviceId).socketId = Str(last'.sock)
           /\ MapGet(devices', last'.deviceId).ip =
                 IF MapHas(devices, last'.deviceId)
                 THEN MapGet(devices, last'.deviceId).ip
                 ELSE sockets[last'.sock].ip ]_vars

\* A connection has sent a sample resolved to a deviceId that another
\* connection, still bound to it, registered after this one did.
C18_Witness ==
    /\ last.op = "sensor-data" /\ last.payload.present
    /\ sockets[last.sock].deviceId = last.deviceId
    /\ \E c \in Sockets :
          /\ c # last.sock
          /\ sockets[c].deviceId = last.deviceId
          /\ MapGet(devices, last.deviceId).ip = sockets[c].ip
          /\ MapGet(devices, last.deviceId).socketId = Str(last.sock)

\* The snapshots of the last event: the lists of its 'devices' emits and of
\* its /devices response.
SnapshotsOfLast == {i \in 1..Len(emits) : emits[i].ev \in {"devices", "response"}}

\* C19: the records of a snapshot keep the fields they had when it was
\* taken: when the last event took a snapshot, the next event changes no
\* field of an object that snapshot holds (an object that is still held by
\* the registry reads as it did).
C19_SnapshotNotAliased ==
    [][ SnapshotsOfLast # {}
        => \A j \in 1..Len(objects) :
              \A k \in 1..Len(objects') :
                  objects'[k] = objects[j] => devices'[k] = devices[j] ]_vars

\* A record with every field written: none is undefined.
Complete(rec) ==
    /\ DOMAIN rec = RecordFields
    /\ \A f \in RecordFields : rec[f] # Undef

\* C20: handlers run one at a time and a snapshot is taken only once the
\* handler's writes are done: the registry between handlers, and every
\* broadcast or listed snapshot, holds complete records only; a snapshot is
\* the registry after the whole handler; and the record a register or a
\* disconnect wrote carries all of that handler's writes in the handler's
\* own broadcast.
C20_SnapshotsSeeWholeMutations ==
    /\ \A j \in 1..Len(devices) : Complete(devices[j])
    /\ \A i \in SnapshotsOfLast :
          /\ emits[i].list = Values(devices)
          /\ \A j \in 1..Len(emits[i].list) : Complete(emits[i].list[j])
          /\ last.op = "register"
             => \E j \in 1..Len(emits[i].list) :
                   /\ emits[i].list[j].deviceId = last.deviceId
                   /\ emits[i].list[j].socketId = Str(last.sock)
                   /\ emits[i].list[j].ip = sockets[last.sock].ip
                   /\ emits[i].list[j].lastSeen = ToISOString(now - 1)
          /\ last.op = "disconnect"
             => \E j \in 1..Len(emits[i].list) :
                   /\ emits[i].list[j].deviceId = last.deviceId
                   /\ emits[i].list[j].socketId = Null
                   /\ emits[i].list[j].lastSeen = ToISOString(now - 1)
    /\ (last.op = "sensor-data" /\ last.payload.present)
       => /\ MapGet(devices, last.deviceId).socketId = Str(last.sock)
          /\ MapGet(devices, last.deviceId).lastSeen = ToISOString(now - 1)
          /\ MapGet(devices, last.deviceId).lat = Or(last.payload.lat, Str(""))
          /\ MapGet(devices, last.deviceId).lon = Or(last.payload.lon, Str(""))

\* The registry was listed over HTTP after samples and registers of two
\* connections had created two records.
C20_Witness ==
    /\ last.op = "list"
    /\ Len(emits) = 1 /\ Len(emits[1].list) >= 2
    /\ \E j \in 1..Len(devices) : devices[j].lat = Str("")
    /\ \E c1, c2 \in Sockets :
          /\ c1 # c2
          /\ \E j \in 1..Len(devices) : devices[j].socketId = Str(c1)
          /\ \E j \in 1..Len(devices) : devices[j].socketId = Str(c2)

\* C22: a connection handle is the socketId of at most one record of the
\* registry.
C22_HandleInOneRecord ==
    \A i, j \in 1..Len(devices) :
        (devices[i].socketId.t = "string" /\ devices[i].socketId = devices[j].socketId)
        => i = j

\* C24: 'devices' and 'sensor-data' events are addressed and delivered to
\* admin (observer) connections only.
C24_OnlyObserversReceive ==
    \A i \in 1..Len(emits) :
        emits[i].ev \in {"devices", "sensor-data"}
        => \A s \in emits[i].to \cup emits[i].got : sockets[s].role = "admin"

\* The entries of the log that are effects of the message connection c had
\* handled at clock reading t.
EffectsOf(c, t) == {i \in 1..Len(log) : log[i].sock = c /\ log[i].at = t}

\* The clock readings at which a sample of connection c was accepted.
AcceptedAt(c) ==
    {log[i].at : i \in {k \in 1..Len(log) :
                          /\ log[k].sock = c /\ log[k].op = "sensor-data"
                          /\ log[k].kind = "sink"}}

\* C21: for two messages of one connection, handled at t1 before t2, every
\* effect of the first (appendCsv call, registry write, emits) comes before
\* every effect of the second; every accepted sample has its appendCsv
\* call, its registry write and its 'sensor-data' emit; so each admin is
\* delivered the samples of one connection in the order they were handled.
C21_PerConnectionOrder ==
    /\ \A i, j \in 1..Len(log) :
          (log[i].sock = log[j].sock /\ log[i].at < log[j].at) => i < j
    /\ \A c \in Sockets : \A t \in AcceptedAt(c) :
          /\ \E i \in EffectsOf(c, t) : log[i].kind = "sink"
          /\ \E i \in EffectsOf(c, t) : log[i].kind = "registry"
          /\ \E i \in EffectsOf(c, t) :
                log[i].kind = "emit" /\ log[i].ev = "sensor-data"
    /\ (last.op = "sensor-data" /\ last.payload.present)
       => /\ now - 1 \in AcceptedAt(last.sock)
          /\ log[Len(log)].kind = "emit" /\ log[Len(log)].ev = "sensor-data"
          /\ log[Len(log)].sock = last.sock /\ log[Len(log)].at = now - 1
          /\ Observers(sockets) \subseteq log[Len(log)].got

\* An admin was delivered two samples of one connection, and a message of
\* another connection was handled between them.
C21_Witness ==
    \E c \in Sockets, o \in Observers(sockets) :
        \E i, j, k \in 1..Len(log) :
            /\ i < k /\ k < j
            /\ log[i].sock = c /\ log[j].sock = c /\ log[k].sock \notin {c, o}
            /\ log[i].ev = "sensor-data" /\ log[j].ev = "sensor-data"
            /\ o \in log[i].got /\ o \in log[j].got
            /\ log[k].kind = "registry"

\* C23: Drive holds at most one file per file name.
C23_OneRemoteFilePerName ==
    \A i, j \in 1..Len(driveFiles) : driveFiles[i] = driveFiles[j] => i = j

=============================================================================
